---- MODULE Spec2Model ----
(***************************************************************************)
(* Model of src/src.c: a game of blackjack against the computer as dealer. *)
(* The deck is built from 13 card images, shuffled by FisherYates with the *)
(* C library generator seeded from the command line, dealt from the front  *)
(* through one cursor (card_count), and played in the while(1) loop of     *)
(* main.  Array indexes are the C indexes (0-based); sequences are 1-based *)
(* so the element at C index k is the element k + 1 of the sequence.       *)
(***************************************************************************)
EXTENDS Integers, Sequences, FiniteSets

\* Seeds the command line supplies (argv[2]); the model runs seeds 0..MaxSeed.
MaxSeed == 1600

DECK_SIZE == 52
NUM_CARDS == 13

\* int points[] = { 11, 10, 10, 10, 10, 9, 8, 7, 6, 5, 4, 3, 2 };
points == <<11, 10, 10, 10, 10, 9, 8, 7, 6, 5, 4, 3, 2>>

\* typedef struct _Card_ { char* image_; int points_; } Card;
\* image_ is the buffer of one of the 13 files, named here by its index.
Card == [image_ : 0..(NUM_CARDS - 1), points_ : 2..11]

\* The deck after the loading loop: 4 cards of every image, in file order.
ConstructedDeck ==
  [n \in 1..DECK_SIZE |-> [image_ |-> (n - 1) \div 4, points_ |-> points[((n - 1) \div 4) + 1]]]

(***************************************************************************)
(* srand / rand.  The generator is the one the C standard gives for rand:  *)
(*   next = next * 1103515245 + 12345;  return (next / 65536) % 32768;     *)
(* The returned bits 16..30 depend only on next modulo 2^31, so the state  *)
(* is kept modulo 2^31 and the product is formed from 16-bit halves.       *)
(***************************************************************************)
\* srand(seed) sets next to the seed (seeds here are below 2^31).
srand(random_seed) == random_seed

randNext(n) ==
  LET hi == n \div 65536
      lo == n % 65536
      t  == lo * 20077 + 12345
      x  == (((hi * 20077) % 32768) + ((lo * 16838) % 32768) + (t \div 65536)) % 32768
  IN  (x * 65536) + (t % 65536)

rand(n) == (n \div 65536) % 32768

\* The swap without the temporary: deck[swap_index] reads the value just written.
SwapCards_NoTmp(deck, i, swap_index) ==
  [deck EXCEPT ![i + 1] = deck[swap_index + 1]]

\* Card tmp = deck[i]; deck[i] = deck[swap_index]; deck[swap_index] = tmp;
SwapCards(deck, i, swap_index) ==
  [deck EXCEPT ![i + 1] = deck[swap_index + 1], ![swap_index + 1] = deck[i + 1]]

\* The ace rule with the test score >= 10.
CardScore_From10(score, card) ==
  IF card.points_ = 11
  THEN (IF score >= 10 THEN 1 ELSE 11)
  ELSE card.points_

\* The ace rule of giveCards: an ace is 1 when the score so far is above 10.
CardScore(score, card) ==
  IF card.points_ = 11
  THEN (IF score > 10 THEN 1 ELSE 11)
  ELSE card.points_

\* giveCards with the cursor handed over by value: it is never advanced.
RECURSIVE giveCards_NoAdvance(_, _, _, _, _, _)
giveCards_NoAdvance(deck, receiver, cnt, receiver_count, score, amount) ==
  IF amount = 0
  THEN [receiver |-> receiver, card_count |-> cnt,
        receiver_count |-> receiver_count, score |-> score]
  ELSE giveCards_NoAdvance(deck,
                 [k \in 1..(receiver_count + 1) |->
                    IF k = receiver_count + 1 THEN deck[cnt + 1] ELSE receiver[k]],
                 cnt,
                 receiver_count + 1,
                 score + CardScore(score, deck[cnt + 1]),
                 amount - 1)

\* giveCards: moves amount cards from the deck cursor to the receiver.
RECURSIVE giveCards(_, _, _, _, _, _)
giveCards(deck, receiver, cnt, receiver_count, score, amount) ==
  IF amount = 0
  THEN [receiver |-> receiver, card_count |-> cnt,
        receiver_count |-> receiver_count, score |-> score]
  ELSE giveCards(deck,
                 [k \in 1..(receiver_count + 1) |->
                    IF k = receiver_count + 1 THEN deck[cnt + 1] ELSE receiver[k]],
                 cnt + 1,
                 receiver_count + 1,
                 score + CardScore(score, deck[cnt + 1]),
                 amount - 1)

\* The player's blackjack without the look at the dealer's score.
NaturalOutcome_NoPush(d_score) ==
  "PlayerBlackjack"

\* if (dealer_score != 21) "YOU WIN!" else "BLACKJACK! PUSH!"
NaturalOutcome(d_score) ==
  IF d_score # 21 THEN "PlayerBlackjack" ELSE "Push"

\* The test of the hit with >= 21 sending a bust hand to the dealer's turn.
AfterHit_From21(p_score) ==
  IF p_score >= 21 THEN "dealer"
  ELSE "player"

\* The test of the hit without the bust: above 21 the player is asked again.
AfterHit_NoBust(p_score) ==
  IF p_score = 21 THEN "dealer"
  ELSE "player"

\* The test of the hit without the 21: at 21 the player is asked again.
AfterHit_Above21(p_score) ==
  IF p_score > 21 THEN "bust"
  ELSE "player"

\* The branch taken after a hit: the dealer's turn at 21, bust above 21.
AfterHit(p_score) ==
  IF p_score = 21 THEN "dealer"
  ELSE IF p_score > 21 THEN "bust"
  ELSE "player"

\* The dealer's blackjack tested on more than two cards.
DealerBlackjack_Late(d_score, d_count) ==
  d_score = 21 /\ d_count > 2

\* if (dealer_score == 21 && dealer_count == 2)
DealerBlackjack(d_score, d_count) ==
  d_score = 21 /\ d_count = 2

\* The draw loop with <=.
DealerMustDraw_OnTie(d_score, p_score) ==
  d_score <= p_score

\* while (dealer_score < player_score)
DealerMustDraw(d_score, p_score) ==
  d_score < p_score

\* The checks after the draw loop without the push.
DealerOutcome_NoPush(d_score, p_score) ==
  IF d_score = 21
  THEN "DealerWin"
  ELSE IF d_score > 21
  THEN "PlayerWin"
  ELSE ""

\* The two checks after the draw loop; "" when neither breaks out of while(1).
DealerOutcome(d_score, p_score) ==
  IF d_score = 21
  THEN (IF p_score = 21 THEN "Push" ELSE "DealerWin")
  ELSE IF d_score > 21
  THEN "PlayerWin"
  ELSE ""

\* showCards with the loop over the cards one short (i < length - 1).
showCards_OneShort(hand, length, score) ==
  [cards |-> SubSeq(hand, 1, length - 1), score |-> score]

\* showCards(cards, length, score, ...): what one call prints of a hand.
showCards(hand, length, score) ==
  [cards |-> SubSeq(hand, 1, length), score |-> score]

\* Nothing printed yet.
NoRender == [cards |-> <<>>, score |-> 0]

\* giveCards reads cards[*card_count] without a test of the index: dealing
\* amount cards from cnt reads past the end of Card cards[DECK_SIZE].
PastEnd(cnt, amount) == cnt + amount > DECK_SIZE

\* char option[OPTION_INPUT_LENGTH]; scanf("%s", option) stores the token and
\* a terminating 0 whatever the length of the token is.
OPTION_INPUT_LENGTH == 20
LongInput == "xxxxxxxxxxxxxxxxxxxx"
strlen(token) ==
  IF token = LongInput THEN 20
  ELSE IF token = "hit" THEN 3
  ELSE IF token = "" THEN 0
  ELSE 1
OptionOverflow(token) == strlen(token) + 1 > OPTION_INPUT_LENGTH

VARIABLES
  pc,            \* position in main
  seed,          \* argv[2]
  next,          \* state of the random number generator
  i,             \* loop index of FisherYates (and of giveCards)
  cards,         \* Card cards[DECK_SIZE]
  card_count,
  dealer,        \* the filled part of Card dealer[DECK_SIZE]
  player,        \* the filled part of Card player[DECK_SIZE]
  dealer_count,
  player_count,
  dealer_score,
  player_score,
  players_turn,
  option,        \* the last input read by scanf
  outcome,       \* the result printed, "" while none is
  shown,         \* the last showCards output for the player and for the dealer
  amount,        \* the parameter amount of a call of giveCards on its own
  first,         \* the deck a first call of FisherYates left, <<>> before
  draws          \* the swap indexes drawn so far in a call of FisherYates

vars == <<pc, seed, next, i, cards, card_count, dealer, player, dealer_count,
          player_count, dealer_score, player_score, players_turn, option, outcome,
          shown, amount, first, draws>>

game == <<card_count, dealer, player, dealer_count, player_count,
          dealer_score, player_score>>

\* The variables only the specifications of a single function use.
unit == <<amount, first, draws>>

\* The state at "THE GAME STARTS...": the deck is built, nothing is shuffled.
Init ==
  /\ pc = "FisherYates"
  /\ seed \in 0..MaxSeed
  /\ next = 1
  /\ i = 0
  /\ cards = ConstructedDeck
  /\ card_count = DECK_SIZE
  /\ dealer = <<>>
  /\ player = <<>>
  /\ dealer_count = 0
  /\ player_count = 0
  /\ dealer_score = 0
  /\ player_score = 0
  /\ players_turn = 1
  /\ option = ""
  /\ outcome = ""
  /\ shown = [player |-> NoRender, dealer |-> NoRender]
  /\ amount = 0
  /\ first = <<>>
  /\ draws = <<>>

\* int swap_index = rand() % (i + 1);
SwapIndex_Below(r, k) == r % k

SwapIndex(r, k) == r % (k + 1)

\* FisherYates without the call of srand: the generator goes on from where
\* the last call left it.
FisherYatesEnter_NoSrand ==
  /\ pc = "FisherYates"
  /\ next' = next
  /\ i' = Len(cards) - 1
  /\ pc' = "shuffle"
  /\ draws' = <<>>
  /\ UNCHANGED <<seed, cards, game, players_turn, option, outcome, shown, amount, first>>

\* FisherYates(deck, size, seed): srand and the loop initialisation; size is
\* the length of the deck handed over.
FisherYatesEnter ==
  /\ pc = "FisherYates"
  /\ next' = srand(seed)
  /\ i' = Len(cards) - 1
  /\ pc' = "shuffle"
  /\ draws' = <<>>
  /\ UNCHANGED <<seed, cards, game, players_turn, option, outcome, shown, amount, first>>

\* One iteration of for (i = size - 1; i > 0; i--).
FisherYatesStep ==
  /\ pc = "shuffle"
  /\ i > 0
  /\ LET n == randNext(next)
         swap_index == SwapIndex(rand(n), i)
     IN  /\ next' = n
         /\ cards' = SwapCards(cards, i, swap_index)
  /\ i' = i - 1
  /\ pc' = IF i - 1 > 0 THEN "shuffle" ELSE "deal"
  /\ UNCHANGED <<seed, game, players_turn, option, outcome, shown, unit>>

\* card_count = 0; (line 325) the cursor the deal starts from.
CursorAtDeal_NoReset == card_count

CursorAtDeal == 0

\* The initial deal and the check of the player's blackjack.
InitialDeal ==
  /\ pc = "deal"
  /\ IF PastEnd(CursorAtDeal, 4)
     THEN /\ pc' = "deck_overrun"
          /\ UNCHANGED <<game, outcome, shown>>
     ELSE LET p == giveCards(cards, <<>>, CursorAtDeal, 0, 0, 2)
              d == giveCards(cards, <<>>, p.card_count, 0, 0, 2)
          IN  /\ player' = p.receiver
              /\ player_count' = p.receiver_count
              /\ player_score' = p.score
              /\ dealer' = d.receiver
              /\ dealer_count' = d.receiver_count
              /\ dealer_score' = d.score
              /\ card_count' = d.card_count
              /\ IF p.score = 21
                 THEN /\ pc' = "done"
                      /\ outcome' = NaturalOutcome(d.score)
                      /\ shown' = [player |-> showCards(p.receiver, p.receiver_count, p.score),
                                   dealer |-> showCards(d.receiver, 2, d.score)]
                 ELSE /\ pc' = "loop"
                      /\ outcome' = ""
                      /\ shown' = [player |-> showCards(p.receiver, p.receiver_count, p.score),
                                   dealer |-> showCards(d.receiver, 1, d.receiver[1].points_)]
  /\ players_turn' = 1
  /\ UNCHANGED <<seed, next, i, cards, option, unit>>

\* scanf reads "h".
PlayerHit ==
  /\ pc = "loop"
  /\ players_turn = 1
  /\ option' = "h"
  /\ IF PastEnd(card_count, 1)
     THEN /\ pc' = "deck_overrun"
          /\ UNCHANGED <<card_count, player, player_count, player_score,
                         players_turn, outcome, shown>>
     ELSE LET p == giveCards(cards, player, card_count, player_count, player_score, 1)
          IN  /\ player' = p.receiver
              /\ player_count' = p.receiver_count
              /\ player_score' = p.score
              /\ card_count' = p.card_count
              /\ shown' = [shown EXCEPT
                             !.player = showCards(p.receiver, p.receiver_count, p.score)]
              /\ IF AfterHit(p.score) = "dealer"
                 THEN /\ players_turn' = 0
                      /\ pc' = "loop"
                      /\ outcome' = outcome
                 ELSE IF AfterHit(p.score) = "bust"
                 THEN /\ players_turn' = players_turn
                      /\ pc' = "done"
                      /\ outcome' = "PlayerBust"
                 ELSE /\ players_turn' = players_turn
                      /\ pc' = "loop"
                      /\ outcome' = outcome
  /\ UNCHANGED <<seed, next, i, cards, dealer, dealer_count, dealer_score, unit>>

\* A stand refused while the player's score is below the dealer's.
PlayerStand_Unless ==
  /\ pc = "loop"
  /\ players_turn = 1
  /\ option' = "s"
  /\ players_turn' = IF player_score >= dealer_score THEN 0 ELSE 1
  /\ UNCHANGED <<pc, seed, next, i, cards, game, outcome, shown, unit>>

\* scanf reads "s".
PlayerStand ==
  /\ pc = "loop"
  /\ players_turn = 1
  /\ option' = "s"
  /\ players_turn' = 0
  /\ UNCHANGED <<pc, seed, next, i, cards, game, outcome, shown, unit>>

\* scanf reads anything else.
OtherInputs == {"x", "hit", LongInput}

\* Neither strcmp matches: the loop comes back to the prompt.  A token of
\* OPTION_INPUT_LENGTH characters or more is written past the end of option.
PlayerOther ==
  /\ pc = "loop"
  /\ players_turn = 1
  /\ option' \in OtherInputs
  /\ pc' = IF OptionOverflow(option') THEN "option_overflow" ELSE pc
  /\ UNCHANGED <<seed, next, i, cards, game, players_turn, outcome, shown, unit>>

\* if (!players_turn): the dealer's two cards are shown, then the check of the
\* dealer's blackjack.
DealerTurn ==
  /\ pc = "loop"
  /\ players_turn = 0
  /\ shown' = [shown EXCEPT !.dealer = showCards(dealer, 2, dealer_score)]
  /\ IF DealerBlackjack(dealer_score, dealer_count)
     THEN /\ pc' = "done"
          /\ outcome' = "DealerBlackjack"
     ELSE /\ pc' = "dealer_draw"
          /\ outcome' = outcome
  /\ UNCHANGED <<seed, next, i, cards, game, players_turn, option, unit>>

\* One iteration of while (dealer_score < player_score).
DealerDraw ==
  /\ pc = "dealer_draw"
  /\ DealerMustDraw(dealer_score, player_score)
  /\ IF PastEnd(card_count, 1)
     THEN /\ pc' = "deck_overrun"
          /\ UNCHANGED <<card_count, dealer, dealer_count, dealer_score, shown>>
     ELSE LET d == giveCards(cards, dealer, card_count, dealer_count, dealer_score, 1)
          IN  /\ dealer' = d.receiver
              /\ dealer_count' = d.receiver_count
              /\ dealer_score' = d.score
              /\ card_count' = d.card_count
              /\ shown' = [shown EXCEPT
                             !.dealer = showCards(d.receiver, d.receiver_count, d.score)]
              /\ pc' = pc
  /\ UNCHANGED <<seed, next, i, cards, player, player_count, player_score,
                 players_turn, option, outcome, unit>>

\* The code after the draw loop; without a result the player is asked again.
DealerResolve ==
  /\ pc = "dealer_draw"
  /\ ~DealerMustDraw(dealer_score, player_score)
  /\ IF DealerOutcome(dealer_score, player_score) # ""
     THEN /\ pc' = "done"
          /\ outcome' = DealerOutcome(dealer_score, player_score)
          /\ players_turn' = players_turn
     ELSE /\ pc' = "loop"
          /\ outcome' = outcome
          /\ players_turn' = 1
  /\ UNCHANGED <<seed, next, i, cards, game, option, shown, unit>>

Next ==
  \/ FisherYatesEnter
  \/ FisherYatesStep
  \/ InitialDeal
  \/ PlayerHit
  \/ PlayerStand
  \/ PlayerOther
  \/ DealerTurn
  \/ DealerDraw
  \/ DealerResolve

Spec == Init /\ [][Next]_vars

TypeOK ==
  /\ pc \in {"FisherYates", "shuffle", "deal", "loop", "dealer_draw", "done",
             "deck_overrun", "option_overflow", "giveCards", "returned"}
  /\ cards \in [1..Len(cards) -> Card]
  /\ players_turn \in {0, 1}
  /\ next >= 0

\* The scheduling of main: the program's own steps are always taken when they
\* can be, and the player keeps answering the prompt with "h" or "s".
FairSpec ==
  /\ Init /\ [][Next]_vars
  /\ WF_vars(FisherYatesEnter \/ FisherYatesStep \/ InitialDeal)
  /\ WF_vars(DealerTurn \/ DealerDraw \/ DealerResolve)
  /\ WF_vars(PlayerHit \/ PlayerStand)

----
\* The rounds in which every answer to the prompt is "h" or "s", under the
\* same scheduling.
IntentNext ==
  \/ FisherYatesEnter
  \/ FisherYatesStep
  \/ InitialDeal
  \/ PlayerHit
  \/ PlayerStand
  \/ DealerTurn
  \/ DealerDraw
  \/ DealerResolve

IntentSpec ==
  /\ Init /\ [][IntentNext]_vars
  /\ WF_vars(FisherYatesEnter \/ FisherYatesStep \/ InitialDeal)
  /\ WF_vars(DealerTurn \/ DealerDraw \/ DealerResolve)
  /\ WF_vars(PlayerHit \/ PlayerStand)

(***************************************************************************)
(* giveCards on its own: one call with any cursor and a small amount, the  *)
(* receiver being an empty hand; one step per iteration of its for loop.   *)
(***************************************************************************)
MaxAmount == 3

GiveInit ==
  /\ pc = "giveCards"
  /\ seed = 0
  /\ next = 1
  /\ i = 0
  /\ cards = ConstructedDeck
  /\ card_count \in 0..DECK_SIZE
  /\ amount \in 1..MaxAmount
  /\ dealer = <<>>
  /\ player = <<>>
  /\ dealer_count = 0
  /\ player_count = 0
  /\ dealer_score = 0
  /\ player_score = 0
  /\ players_turn = 1
  /\ option = ""
  /\ outcome = ""
  /\ shown = [player |-> NoRender, dealer |-> NoRender]
  /\ first = <<>>
  /\ draws = <<>>

\* The body of for (int i = 0; i < amount; i++).
GiveCardsStep ==
  /\ pc = "giveCards"
  /\ i < amount
  /\ IF PastEnd(card_count, 1)
     THEN /\ pc' = "deck_overrun"
          /\ UNCHANGED <<i, card_count, player, player_count, player_score>>
     ELSE LET p == giveCards(cards, player, card_count, player_count, player_score, 1)
          IN  /\ player' = p.receiver
              /\ player_count' = p.receiver_count
              /\ player_score' = p.score
              /\ card_count' = p.card_count
              /\ i' = i + 1
              /\ pc' = pc
  /\ UNCHANGED <<seed, next, cards, dealer, dealer_count, dealer_score,
                 players_turn, option, outcome, shown, unit>>

\* The loop is over: giveCards returns.
GiveCardsReturn ==
  /\ pc = "giveCards"
  /\ ~(i < amount)
  /\ pc' = "returned"
  /\ UNCHANGED <<seed, next, i, cards, game, players_turn, option, outcome, shown, unit>>

GiveNext ==
  \/ GiveCardsStep
  \/ GiveCardsReturn

GiveSpec == GiveInit /\ [][GiveNext]_vars

(***************************************************************************)
(* FisherYates called twice in one process with the same seed, each time   *)
(* on a newly built deck; the generator state next is shared by the calls. *)
(***************************************************************************)
\* The first call is over: its deck is kept and a second deck is built.
ShuffleAgain ==
  /\ pc = "deal"
  /\ first = <<>>
  /\ first' = cards
  /\ cards' = ConstructedDeck
  /\ pc' = "FisherYates"
  /\ UNCHANGED <<seed, next, i, game, players_turn, option, outcome, shown, amount, draws>>

TwiceNext ==
  \/ FisherYatesEnter
  \/ FisherYatesStep
  \/ ShuffleAgain

TwiceSpec == Init /\ [][TwiceNext]_vars

(***************************************************************************)
(* FisherYates on its own, on a small deck of distinct cards, with rand()  *)
(* returning any value: every sequence of swap indexes the loop can draw.  *)
(***************************************************************************)
ShuffleSize == 5

\* Values of rand(): enough of them to give every remainder modulo i + 1.
RandValues == 0..(2 * ShuffleSize)

SmallDeck ==
  [n \in 1..ShuffleSize |-> [image_ |-> n - 1, points_ |-> points[n]]]

AnyInit ==
  /\ pc = "FisherYates"
  /\ seed = 0
  /\ next = 1
  /\ i = 0
  /\ cards = SmallDeck
  /\ card_count = ShuffleSize
  /\ dealer = <<>>
  /\ player = <<>>
  /\ dealer_count = 0
  /\ player_count = 0
  /\ dealer_score = 0
  /\ player_score = 0
  /\ players_turn = 1
  /\ option = ""
  /\ outcome = ""
  /\ shown = [player |-> NoRender, dealer |-> NoRender]
  /\ amount = 0
  /\ first = <<>>
  /\ draws = <<>>

\* One iteration of the loop with rand() returning r; the state of the
\* generator is left out, the value returned being any.
FisherYatesAnyStep ==
  /\ pc = "shuffle"
  /\ i > 0
  /\ \E r \in RandValues :
       LET swap_index == SwapIndex(r, i)
       IN  /\ cards' = SwapCards(cards, i, swap_index)
           /\ draws' = Append(draws, swap_index)
  /\ i' = i - 1
  /\ pc' = IF i - 1 > 0 THEN "shuffle" ELSE "deal"
  /\ UNCHANGED <<seed, next, game, players_turn, option, outcome, shown, amount, first>>

AnyNext ==
  \/ FisherYatesEnter
  \/ FisherYatesAnyStep

AnySpec == AnyInit /\ [][AnyNext]_vars

----
\* Names for the engine states of the specification.
Dealt == pc \in {"loop", "dealer_draw", "done"}
PlayerTurnState == pc = "loop" /\ players_turn = 1
DealerTurnState == (pc = "loop" /\ players_turn = 0) \/ pc = "dealer_draw"
Finished == pc = "done"

\* A step that reads the intent Hit, and a step that leaves the draw loop.
HitStep == PlayerTurnState /\ option' = "h"
LoopExit == pc = "dealer_draw" /\ pc' # "dealer_draw"

\* C1: a player's two-card 21 finishes the round right after the initial
\* deal, with no intent read and no card drawn beyond the four dealt:
\* PlayerBlackjack when the dealer's two cards are not 21, Push when they are.
C1_NaturalBlackjack ==
  (Dealt /\ player_count = 2 /\ player_score = 21) =>
     /\ Finished
     /\ option = ""
     /\ card_count = 4
     /\ dealer_count = 2
     /\ outcome = (IF dealer_score # 21 THEN "PlayerBlackjack" ELSE "Push")

C1_Witness ==
  /\ Finished /\ player_count = 2 /\ player_score = 21
  /\ dealer_score = 21 /\ outcome = "Push"

\* C2: a Hit moves exactly the card at the cursor into the player's hand and
\* leaves the dealer alone; 21 goes to the dealer's turn, more than 21 ends
\* the round as PlayerBust, less stays in the player's turn; nothing happens
\* after a PlayerBust.
C2_Hit ==
  [][/\ HitStep =>
          /\ player' = Append(player, cards[card_count + 1])
          /\ player_count' = player_count + 1
          /\ card_count' = card_count + 1
          /\ <<dealer, dealer_count, dealer_score>>' = <<dealer, dealer_count, dealer_score>>
          /\ (player_score' = 21 =>
                pc' = "loop" /\ players_turn' = 0 /\ outcome' = "")
          /\ (player_score' > 21 =>
                pc' = "done" /\ outcome' = "PlayerBust")
          /\ (player_score' < 21 =>
                pc' = "loop" /\ players_turn' = 1 /\ outcome' = "")
     /\ outcome = "PlayerBust" => FALSE]_vars

C2_Witness ==
  /\ Finished /\ outcome = "PlayerBust" /\ option = "h"
  /\ player_score > 21 /\ player_count = 3 /\ dealer_count = 2

\* C3: past the check of the dealer's blackjack the dealer draws one card at
\* a time exactly while its score is below the player's: a dealer's hand grows
\* only in the loop, by one card, from a score below the player's; below the
\* player's score the loop always draws; the loop is left only with a dealer's
\* score of at least the player's.
C3_DealerDraws ==
  [][/\ (Dealt /\ dealer_count' # dealer_count) =>
          /\ pc = "dealer_draw" /\ pc' = "dealer_draw"
          /\ dealer_score < player_score
          /\ dealer' = Append(dealer, cards[card_count + 1])
          /\ dealer_count' = dealer_count + 1
     /\ (pc = "dealer_draw" /\ dealer_score < player_score) =>
          dealer_count' = dealer_count + 1
     /\ LoopExit => dealer_score >= player_score]_vars

C3_Witness ==
  /\ pc = "dealer_draw" /\ dealer_count >= 4
  /\ dealer_score >= player_score

\* C4: when the draw loop is left with a dealer's score of 21 the round ends
\* as Push if the player has 21 and as DealerWin if not; with a dealer's score
\* above 21 it ends as PlayerWin.
C4_DealerResolve ==
  [][LoopExit =>
       /\ (dealer_score = 21 =>
             /\ pc' = "done"
             /\ outcome' = (IF player_score = 21 THEN "Push" ELSE "DealerWin"))
       /\ (dealer_score > 21 =>
             pc' = "done" /\ outcome' = "PlayerWin")]_vars

C4_Witness ==
  /\ Finished /\ outcome = "Push" /\ dealer_count > 2
  /\ dealer_score = 21 /\ player_score = 21

\* C5: when the draw loop is left with a dealer's score from the player's
\* score up to 20, the round ends at once: DealerWin if the dealer's score is
\* the greater, Push if the two are equal.
C5_DealerStandsPat ==
  [][(LoopExit /\ dealer_score >= player_score /\ dealer_score <= 20) =>
       /\ pc' = "done"
       /\ outcome' = (IF dealer_score > player_score THEN "DealerWin" ELSE "Push")]_vars

\* C6: the states are visited in the order PlayerTurn, DealerTurn, Finished:
\* from the dealer's turn the engine never goes back to the player's turn.
C6_NoReturnToPlayer ==
  [][DealerTurnState => ~PlayerTurnState']_vars

\* C7: while the player keeps answering with Hit or Stand, every round
\* eventually reaches Finished.
C7_Terminates == <>Finished

\* C8: on entering the dealer's turn with two dealer's cards scoring 21 the
\* round ends as DealerBlackjack, whatever the player's score is, and the
\* dealer draws nothing.
C8_DealerBlackjack ==
  [][(pc = "loop" /\ players_turn = 0 /\ dealer_count = 2 /\ dealer_score = 21) =>
       /\ pc' = "done"
       /\ outcome' = "DealerBlackjack"
       /\ UNCHANGED game]_vars

C8_Witness ==
  /\ Finished /\ outcome = "DealerBlackjack"
  /\ player_score = 21 /\ player_count > 2

\* C9: the score of a hand is the left-to-right fold over its cards that adds
\* 1 for an ace met at a score above 10, 11 for any other ace and the points
\* of any other card; so an ace counted as 11 stays 11.  The hands {Ace},
\* {Ace, Ace}, {Ace, 10} and {10, 10, 2} score 11, 12, 21 and 22.
RECURSIVE FoldScore(_)
FoldScore(hand) ==
  IF hand = <<>> THEN 0
  ELSE LET before == FoldScore(SubSeq(hand, 1, Len(hand) - 1))
           last == hand[Len(hand)].points_
       IN  IF last = 11 /\ before > 10 THEN before + 1
           ELSE IF last = 11 THEN before + 11
           ELSE before + last

HandOf(ps) == [k \in 1..Len(ps) |-> [image_ |-> 0, points_ |-> ps[k]]]
ScoreOfCards(ps) == giveCards(HandOf(ps), <<>>, 0, 0, 0, Len(ps)).score

C9_Score ==
  /\ player_score = FoldScore(player)
  /\ dealer_score = FoldScore(dealer)
  /\ Len(player) = player_count
  /\ Len(dealer) = dealer_count
  /\ ScoreOfCards(<<11>>) = 11
  /\ ScoreOfCards(<<11, 11>>) = 12
  /\ ScoreOfCards(<<11, 10>>) = 21
  /\ ScoreOfCards(<<10, 10, 2>>) = 22

\* A hand whose first card is an ace, counted 11, and that went bust later.
C9_Witness ==
  /\ player_count = 3 /\ player[1].points_ = 11
  /\ player[2].points_ # 11 /\ player[3].points_ # 11
  /\ player_score = 11 + player[2].points_ + player[3].points_
  /\ player_score > 21

\* C10: the shuffle permutes the deck: at every step and at its end the deck
\* holds 52 cards, every image 4 times with the points of its rank, that is 4
\* aces of 11, 16 cards of 10 and 4 cards of each of 9 down to 2.
CountPoints(deck, p) == Cardinality({n \in DOMAIN deck : deck[n].points_ = p})
CountImage(deck, img) == Cardinality({n \in DOMAIN deck : deck[n].image_ = img})

C10_Permutation ==
  /\ DOMAIN cards = 1..52
  /\ \A img \in 0..12 : CountImage(cards, img) = 4
  /\ \A n \in 1..52 : cards[n].points_ = points[cards[n].image_ + 1]
  /\ CountPoints(cards, 11) = 4
  /\ CountPoints(cards, 10) = 16
  /\ \A p \in 2..9 : CountPoints(cards, p) = 4

C10_Witness ==
  /\ pc = "deal" /\ i = 0
  /\ cards # ConstructedDeck

\* C11: from the initial deal on the deck cursor never decreases, it never
\* exceeds 52, and no card is read from past the end of the deck.
C11_Cursor ==
  /\ [](card_count <= DECK_SIZE /\ pc # "deck_overrun")
  /\ [][pc # "deal" => card_count' >= card_count]_vars

C11_Witness ==
  /\ Dealt /\ card_count >= 10
  /\ player_count >= 4 /\ dealer_count >= 4

\* C12: a deal of more cards than are left fails with DeckExhausted and
\* deals nothing: cursor, receiving hand and score stay as they were.
C12_AllOrNothing ==
  [][(pc = "giveCards" /\ i = 0 /\ DECK_SIZE - card_count < amount) =>
       /\ pc' = "DeckExhausted"
       /\ UNCHANGED <<card_count, player, player_count, player_score>>]_vars

\* C13: in the player's turn an input other than "h" and "s" changes nothing:
\* hands, scores, cursor, turn and outcome stay and the prompt comes again.
C13_OtherInputIgnored ==
  [][(PlayerTurnState /\ option' \notin {"h", "s"}) =>
       /\ UNCHANGED <<game, players_turn, outcome>>
       /\ PlayerTurnState']_vars

\* C14: a Stand moves the engine to the dealer's turn whatever the scores are
\* and changes neither a hand, nor a score, nor the cursor.
C14_Stand ==
  [][(PlayerTurnState /\ option' = "s") =>
       /\ pc' = "loop" /\ players_turn' = 0
       /\ UNCHANGED <<game, outcome>>]_vars

\* A stand below the dealer's visible score.
C14_Witness ==
  /\ pc = "loop" /\ players_turn = 0 /\ option = "s"
  /\ player_score < dealer_score /\ player_score <= 11

\* C15: every step that changes a hand (initial deal, hit, dealer's draw)
\* ends with that hand printed with all of its cards and its score.
C15_RenderAfterChange ==
  [][/\ player' # player =>
          shown'.player = [cards |-> player', score |-> player_score']
     /\ dealer' # dealer =>
          shown'.dealer = [cards |-> dealer', score |-> dealer_score']]_vars

\* C15 as amended: the player's hand is printed whole after every change and
\* the dealer's after every draw; after the initial deal only the dealer's
\* first card is printed, with the points of that card as the score, unless
\* the player has a blackjack; the dealer's two cards and score are printed
\* on entering the dealer's turn.
C15_RenderAmended ==
  [][/\ player' # player =>
          shown'.player = [cards |-> player', score |-> player_score']
     /\ (dealer' # dealer /\ pc # "deal") =>
          shown'.dealer = [cards |-> dealer', score |-> dealer_score']
     /\ (dealer' # dealer /\ pc = "deal") =>
          shown'.dealer = (IF player_score' = 21
                           THEN [cards |-> dealer', score |-> dealer_score']
                           ELSE [cards |-> <<dealer'[1]>>, score |-> dealer'[1].points_])
     /\ (pc = "loop" /\ players_turn = 0) =>
          shown'.dealer = [cards |-> <<dealer[1], dealer[2]>>, score |-> dealer_score]]_vars

C15_Witness ==
  /\ pc = "dealer_draw" /\ dealer_count >= 4 /\ player_count >= 3
  /\ shown.dealer = [cards |-> dealer, score |-> dealer_score]
  /\ shown.player = [cards |-> player, score |-> player_score]

\* C16: two decks of the same initial order shuffled with the same seed end
\* in the same order.
C16_Deterministic ==
  (pc = "deal" /\ first # <<>>) => cards = first

C16_Witness ==
  /\ pc = "deal" /\ first # <<>>
  /\ cards = first /\ cards # ConstructedDeck

\* C17: the cards are dealt in deck order from one cursor: positions 0 and 1
\* go to the player and 2 and 3 to the dealer, every later card dealt is the
\* one at the cursor, which then advances by one; so the cursor is the sum of
\* the two hand sizes and the hands hold exactly the cards below the cursor.
DealtPrefix == SubSeq(cards, 1, card_count)

C17_DealOrder ==
  /\ [](Dealt =>
          /\ card_count = player_count + dealer_count
          /\ Len(player) = player_count /\ Len(dealer) = dealer_count
          /\ SubSeq(player, 1, 2) = <<cards[1], cards[2]>>
          /\ SubSeq(dealer, 1, 2) = <<cards[3], cards[4]>>
          /\ \A img \in 0..(NUM_CARDS - 1) :
               CountImage(player, img) + CountImage(dealer, img)
                 = CountImage(DealtPrefix, img))
  /\ [][(Dealt /\ <<card_count, player, dealer>>' # <<card_count, player, dealer>>) =>
          /\ card_count' = card_count + 1
          /\ \/ player' = Append(player, cards[card_count + 1]) /\ dealer' = dealer
             \/ dealer' = Append(dealer, cards[card_count + 1]) /\ player' = player]_vars

C17_Witness ==
  /\ Finished /\ card_count >= 8
  /\ player_count >= 3 /\ dealer_count >= 3
  /\ card_count = player_count + dealer_count

\* C18: the shuffle walks i from the last index down to 1 and swaps position
\* i with a position from 0..i; every ordering of the deck is the result of
\* exactly one sequence of swap indexes, and no ordering is left out.
\* The swap indexes that lead from deck to the ordering final, read off final.
RECURSIVE DrawsOf(_, _, _, _)
DrawsOf(deck, final, k, stop) ==
  IF k <= stop THEN <<>>
  ELSE LET j == CHOOSE p \in 0..k : deck[p + 1] = final[k + 1]
       IN  <<j>> \o DrawsOf([deck EXCEPT ![k + 1] = deck[j + 1], ![j + 1] = deck[k + 1]],
                            final, k - 1, stop)

\* The orderings the loop can end in from index k on.
RECURSIVE AllOrders(_, _)
AllOrders(deck, k) ==
  IF k <= 0 THEN {deck}
  ELSE UNION {AllOrders(SwapCards(deck, k, j), k - 1) :
                j \in {SwapIndex(r, k) : r \in RandValues}}

Orderings(deck) ==
  {f \in [DOMAIN deck -> {deck[n] : n \in DOMAIN deck}] :
     \A a, b \in DOMAIN deck : a # b => f[a] # f[b]}

C19_PlayerWins ==
  /\ (Finished /\ players_turn = 0) =>
       /\ outcome \in {"DealerBlackjack", "Push", "DealerWin", "PlayerWin"}
       /\ player_score <= 21
       /\ (dealer_score <= 21 => dealer_score >= player_score)
  /\ Finished => ~(player_score > 21 /\ dealer_score > 21)
  /\ outcome = "PlayerBlackjack" =>
       player_count = 2 /\ player_score = 21 /\ dealer_score # 21
  /\ outcome = "PlayerWin" =>
       players_turn = 0 /\ dealer_score > 21 /\ player_score <= 21
  /\ outcome \in {"", "PlayerBlackjack", "Push", "PlayerBust",
                  "DealerBlackjack", "DealerWin", "PlayerWin"}

C19_Witness ==
  /\ Finished /\ outcome = "PlayerWin" /\ players_turn = 0
  /\ dealer_count >= 3 /\ dealer_score > 21 /\ player_score <= 21

\* C20: at the prompt the player's score is at most 20 and in the dealer's
\* turn at most 21; every dealer's draw raises the dealer's score by at least
\* 1, the dealer's score never exceeds 31, and the draw loop is always left.
C20_Bounds ==
  /\ [](/\ PlayerTurnState => player_score <= 20
        /\ DealerTurnState => player_score <= 21
        /\ dealer_score <= 31)
  /\ [][(Dealt /\ dealer_count' # dealer_count) =>
          dealer_score' >= dealer_score + 1]_vars
  /\ (pc = "dealer_draw") ~> (pc # "dealer_draw")

C20_Witness ==
  /\ pc = "dealer_draw" /\ player_score = 21
  /\ dealer_count >= 4 /\ dealer_score >= 30

====
